---------------------------- MODULE Spec2Model ----------------------------
(***************************************************************************)
(* Model of scripts/loc_graph.py: the incremental measurement run main()   *)
(* over a git working tree and a JSON history cache, and the pure helpers  *)
(* nice_round, format_number and the axis / label computations of          *)
(* generate_svg.                                                           *)
(***************************************************************************)
EXTENDS Integers, Sequences, FiniteSets, TLC

(***************************************************************************)
(* Bounds of the model.                                                    *)
(***************************************************************************)
MaxCommits == 2      \* commits on the branch, numbered 1..MaxCommits (oldest first)
MaxDate == 2         \* commit timestamps are instants 1..MaxDate
MaxLoc == 1          \* cloc reports a code-line total in 0..MaxLoc
MaxN == 120          \* pairs of nice_round arguments range over -MaxN..MaxN
MaxMant == 1200      \* numeric arguments are m * 10^e + d with m in 0..MaxMant,
MaxExp == 3          \*   e in 0..MaxExp and d in -1..1
MaxPoints == 120     \* number of points handed to generate_svg

VARIABLES
    \* ---- the environment main() runs in
    head,         \* what the working tree is checked out to
    tip,          \* number of commits on branch main
    cdate,        \* cdate[k]: commit timestamp of commit k
    cacheFile,    \* content of OUTPUT_JSON (<< >> when the file is missing)
    files,        \* which of the SVG outputs exist
    \* ---- main()'s position and locals
    pc, current_ref, commits, hist, done, updated, idx, failed,
    \* ---- bookkeeping of the current run (read by the properties only)
    startHead,    \* head when the run started
    loaded,       \* cacheFile when the run started
    again,        \* the run started right after a run that returned
    nCheckouts,   \* measurement checkouts made in this run
    nMeasured,    \* entries appended to hist in this run
    restored,     \* the checkout of the finally block has run
    saved,        \* save_history has run
    \* ---- argument and result of the pure helpers
    a, b, out

envVars == <<head, tip, cdate, cacheFile, files>>
runVars == <<pc, current_ref, commits, hist, done, updated, idx, failed>>
logVars == <<startHead, loaded, again, nCheckouts, nMeasured, restored, saved>>
numVars == <<a, b, out>>
vars == <<envVars, runVars, logVars, numVars>>

OUTPUT_SVG_FALLBACK == ".github/loc-history.svg"
OUTPUT_SVG_LIGHT == ".github/loc-history-light.svg"
OUTPUT_SVG_DARK == ".github/loc-history-dark.svg"

Dates == 1..MaxDate
Locs == 0..MaxLoc

(***************************************************************************)
(* The git working tree.  HEAD is either attached to the branch main or    *)
(* detached at a commit.                                                   *)
(***************************************************************************)
OnBranch == [kind |-> "branch", sha |-> 0]
Detached(c) == [kind |-> "detached", sha |-> c]

\* the commit the working tree shows
HeadCommit(h, t) == IF h.kind = "branch" THEN t ELSE h.sha

\* git rev-parse --abbrev-ref HEAD: the branch name, or the literal HEAD
\* when HEAD is detached
AbbrevRef(h) == IF h.kind = "branch" THEN "main" ELSE "HEAD"

\* git checkout --quiet <sha>
CheckoutSha(sha) == Detached(sha)

\* git checkout --quiet <ref name>: checking out HEAD leaves HEAD where it is
CheckoutRef(h, name) == IF name = "HEAD" THEN h ELSE OnBranch

\* git log --format="%H %cI" --reverse: the ancestors of HEAD, oldest first
get_commits(h, t, d) ==
    [k \in 1..HeadCommit(h, t) |-> [sha |-> k, date |-> d[k]]]

(***************************************************************************)
(* The history cache.                                                      *)
(***************************************************************************)
Entry(s, d, l) == [sha |-> s, date |-> d, loc |-> l]

Range(s) == {s[k] : k \in 1..Len(s)}

Shas(h) == {e.sha : e \in Range(h)}

NoDup(h) == \A j, k \in 1..Len(h) : h[j].sha = h[k].sha => j = k

load_history_empty(file) == << >>

load_history(file) == file

DoneSetEmpty(h) == {}

\* done = {e["sha"] for e in hist}
DoneSet(h) == Shas(h)

\* list.sort(key=date): stable insertion of e into the sorted list s
RECURSIVE InsertByDate(_, _)
InsertByDate(s, e) ==
    IF s = << >> THEN <<e>>
    ELSE IF s[Len(s)].date <= e.date THEN Append(s, e)
    ELSE Append(InsertByDate(SubSeq(s, 1, Len(s) - 1), e), s[Len(s)])

RECURSIVE SortByDate(_)
SortByDate(s) ==
    IF s = << >> THEN << >>
    ELSE InsertByDate(SortByDate(SubSeq(s, 1, Len(s) - 1)), s[Len(s)])

(***************************************************************************)
(* nice_round.  The argument is an integer or, in generate_svg, the float  *)
(* ymax * 1.1 + 1; NiceRoundOf takes it as the fraction p / q.  int(n) of  *)
(* a positive fraction is p \div q, and n <= nice is p <= nice * q.        *)
(***************************************************************************)
RECURSIVE Pow10(_)
Pow10(k) == IF k = 0 THEN 1 ELSE 10 * Pow10(k - 1)

\* len(str(n)) of an integer n >= 0
RECURSIVE NumDigits(_)
NumDigits(n) == IF n < 10 THEN 1 ELSE 1 + NumDigits(n \div 10)

steps == <<1, 2, 3, 5, 10>>

RECURSIVE FirstFitStrict(_, _, _, _)
FirstFitStrict(p, q, magnitude, k) ==
    IF k > Len(steps) THEN 10 * magnitude
    ELSE IF p < steps[k] * magnitude * q THEN steps[k] * magnitude
    ELSE FirstFitStrict(p, q, magnitude, k + 1)

\* for step in steps: nice = step * magnitude; if n <= nice: return nice
\* and, past the loop, return 10 * magnitude
RECURSIVE FirstFit(_, _, _, _)
FirstFit(p, q, magnitude, k) ==
    IF k > Len(steps) THEN 10 * magnitude
    ELSE IF p <= steps[k] * magnitude * q THEN steps[k] * magnitude
    ELSE FirstFit(p, q, magnitude, k + 1)

NiceRoundOf(p, q) ==
    IF p <= 0 THEN 10
    ELSE FirstFit(p, q, Pow10(NumDigits(p \div q) - 1), 1)

\* the floor test written n < 0: zero falls through to the step search
nice_round_lt(n) ==
    IF n < 0 THEN 10 ELSE FirstFit(n, 1, Pow10(NumDigits(n) - 1), 1)

nice_round(n) == NiceRoundOf(n, 1)

(***************************************************************************)
(* The y axis of generate_svg.  ymax * 0.8 and ymax * 1.1 + 1 are binary64 *)
(* products of a nice number; over the arguments of this model they        *)
(* compare like the exact 8 * ymax / 10 and (11 * ymax + 10) / 10.         *)
(***************************************************************************)
\* max_val = max(ys) if max(ys) > 0 else 100
MaxVal(m) == IF m > 0 THEN m ELSE 100

EscalatesAt95(max_val, ymax) == max_val = ymax \/ 100 * max_val >= 95 * ymax

\* max_val == ymax or max_val > ymax * 0.8
Escalates(max_val, ymax) == max_val = ymax \/ 10 * max_val > 8 * ymax

\* ymax = nice_round(max_val), escalated to nice_round(ymax * 1.1 + 1)
AxisYmax(max_val) ==
    LET ymax == nice_round(max_val)
    IN  IF Escalates(max_val, ymax) THEN NiceRoundOf(11 * ymax + 10, 10) ELSE ymax

(***************************************************************************)
(* format_number.  n / unit is the correctly rounded binary64 quotient and *)
(* the format spec .1f rounds that double, not n / unit itself, so a       *)
(* decimal tie is decided by the sign of the quotient's rounding error.    *)
(***************************************************************************)
\* (x * 2^k) % m
RECURSIVE Doubled(_, _, _)
Doubled(x, k, m) == IF k = 0 THEN x ELSE Doubled((2 * x) % m, k - 1, m)

\* the binary exponent e of n / unit: unit * 2^e <= n < unit * 2^(e+1)
RECURSIVE BinExp(_, _)
BinExp(n, unit) == IF n < 2 * unit THEN 0 ELSE 1 + BinExp(n \div 2, unit)

\* the sign of float(n / unit) - n / unit, for a 53-bit significand rounded
\* to nearest, ties to even
QuotientError(n, unit) ==
    LET R == Doubled(n % (2 * unit), 52 - BinExp(n, unit), 2 * unit)
        r == R % unit
    IN  IF r = 0 THEN 0
        ELSE IF 2 * r < unit THEN -1
        ELSE IF 2 * r > unit THEN 1
        ELSE IF R >= unit THEN 1 ELSE -1

\* the number of tenths f"{n/unit:.1f}" prints
Tenths(n, unit) ==
    LET h == unit \div 10
        t == n \div h
        rem == n % h
        err == QuotientError(n, unit)
        up == \/ 2 * rem > h
              \/ 2 * rem = h /\ (err > 0 \/ (err = 0 /\ t % 2 = 1))
    IN  IF up THEN t + 1 ELSE t

\* f"{n/unit:.1f}"
OneDecimal(n, unit) ==
    ToString(Tenths(n, unit) \div 10) \o "." \o ToString(Tenths(n, unit) % 10)

\* f"{n/unit:.0f}" where unit divides n
NoDecimal(n, unit) == ToString(n \div unit)

format_number_decimal(n) ==
    IF n >= 1000000 THEN OneDecimal(n, 1000000) \o "M"
    ELSE IF n >= 1000 THEN OneDecimal(n, 1000) \o "k"
    ELSE ToString(n)

format_number(n) ==
    IF n >= 1000000
    THEN IF n % 1000000 = 0 THEN NoDecimal(n, 1000000) \o "M"
                            ELSE OneDecimal(n, 1000000) \o "M"
    ELSE IF n >= 1000
    THEN IF n % 1000 = 0 THEN NoDecimal(n, 1000) \o "k"
                         ELSE OneDecimal(n, 1000) \o "k"
    ELSE ToString(n)

(***************************************************************************)
(* The date labels of generate_svg.                                        *)
(***************************************************************************)
LabelStepOf20(N) == IF N \div 20 > 1 THEN N \div 20 ELSE 1

\* max(1, len(points) // 10)
LabelStep(N) == IF N \div 10 > 1 THEN N \div 10 ELSE 1

\* the indices i of enumerate(points) that get a grid line and a date label
LabelIndices(N) == {i \in 0..(N - 1) : N <= 10 \/ i % LabelStep(N) = 0}

AfterFinallySwallow(f) == "persist"

\* an exception raised in the try block propagates once the finally block ran
AfterFinally(f) == IF f THEN "raised" ELSE "persist"

\* where the for loop stands after handling commit number k of cs
AfterCommit(k, cs) == IF k + 1 > Len(cs) THEN "finally" ELSE "loop"

(***************************************************************************)
(* Initial states: a repository with at least one commit, checked out on   *)
(* the branch or detached, and a cache that is missing or holds one entry  *)
(* (of a commit of the repository, or of a commit that is no longer in     *)
(* it, sha 0).                                                             *)
(***************************************************************************)
NoOut == [fn |-> "none", val |-> 0, aux |-> 0]

InitCaches(t, d) ==
    {<< >>} \cup {<<Entry(s, d[s], l)>> : s \in 1..t, l \in Locs}
            \cup {<<Entry(0, dd, l)>> : dd \in Dates, l \in Locs}

InitRun ==
    /\ pc = "idle"
    /\ current_ref = "main"
    /\ commits = << >>
    /\ hist = << >>
    /\ done = {}
    /\ updated = FALSE
    /\ idx = 1
    /\ failed = FALSE
    /\ startHead = head
    /\ loaded = cacheFile
    /\ again = FALSE
    /\ nCheckouts = 0
    /\ nMeasured = 0
    /\ restored = FALSE
    /\ saved = FALSE

Init ==
    /\ tip \in 1..MaxCommits
    /\ cdate \in [1..MaxCommits -> Dates]
    /\ \A k \in 1..MaxCommits : k > tip => cdate[k] = 1
    /\ head \in {OnBranch} \cup {Detached(c) : c \in 1..tip}
    /\ cacheFile \in InitCaches(tip, cdate)
    /\ files \in {{}, {OUTPUT_SVG_LIGHT, OUTPUT_SVG_DARK, OUTPUT_SVG_FALLBACK}}
    /\ InitRun
    /\ a = 0 /\ b = 0 /\ out = NoOut

(***************************************************************************)
(* main()                                                                  *)
(***************************************************************************)
\* lines 186-190
Start ==
    /\ pc \in {"idle", "returned", "raised"}
    /\ current_ref' = AbbrevRef(head)
    /\ commits' = get_commits(head, tip, cdate)
    /\ hist' = load_history(cacheFile)
    /\ done' = DoneSet(hist')
    /\ updated' = FALSE
    /\ idx' = 1
    /\ failed' = FALSE
    /\ pc' = "loop"
    /\ startHead' = head
    /\ loaded' = cacheFile
    /\ again' = (pc = "returned")
    /\ nCheckouts' = 0
    /\ nMeasured' = 0
    /\ restored' = FALSE
    /\ saved' = FALSE
    /\ UNCHANGED <<envVars, numVars>>

\* lines 193-195: the commit is cached already
Skip ==
    /\ pc = "loop"
    /\ commits[idx].sha \in done
    /\ idx' = idx + 1
    /\ pc' = AfterCommit(idx, commits)
    /\ UNCHANGED <<envVars, current_ref, commits, hist, done, updated, failed,
                   logVars, numVars>>

\* lines 197-200: checkout, cloc and append all succeed
Measure ==
    /\ pc = "loop"
    /\ commits[idx].sha \notin done
    /\ head' = CheckoutSha(commits[idx].sha)
    /\ \E loc \in Locs :
          hist' = Append(hist, Entry(commits[idx].sha, commits[idx].date, loc))
    /\ updated' = TRUE
    /\ idx' = idx + 1
    /\ pc' = AfterCommit(idx, commits)
    /\ nCheckouts' = nCheckouts + 1
    /\ nMeasured' = nMeasured + 1
    /\ UNCHANGED <<tip, cdate, cacheFile, files, current_ref, commits, done,
                   failed, startHead, loaded, again, restored, saved, numVars>>

\* line 197: git checkout exits non-zero, check_call raises
CheckoutFails ==
    /\ pc = "loop"
    /\ commits[idx].sha \notin done
    /\ failed' = TRUE
    /\ pc' = "finally"
    /\ UNCHANGED <<envVars, current_ref, commits, hist, done, updated, idx,
                   logVars, numVars>>

\* line 198: the checkout succeeded, cloc fails (or prints no JSON)
ClocFails ==
    /\ pc = "loop"
    /\ commits[idx].sha \notin done
    /\ head' = CheckoutSha(commits[idx].sha)
    /\ failed' = TRUE
    /\ pc' = "finally"
    /\ nCheckouts' = nCheckouts + 1
    /\ UNCHANGED <<tip, cdate, cacheFile, files, current_ref, commits, hist,
                   done, updated, idx, startHead, loaded, again, nMeasured,
                   restored, saved, numVars>>

\* lines 201-202: finally: git checkout --quiet current_ref
Restore ==
    /\ pc = "finally"
    /\ head' = CheckoutRef(head, current_ref)
    /\ restored' = TRUE
    /\ pc' = AfterFinally(failed)
    /\ UNCHANGED <<tip, cdate, cacheFile, files, current_ref, commits, hist,
                   done, updated, idx, failed, startHead, loaded, again,
                   nCheckouts, nMeasured, saved, numVars>>

\* lines 204-213: sort, then save and render when something is new or an
\* SVG is missing
Persist ==
    /\ pc = "persist"
    /\ hist' = SortByDate(hist)
    /\ IF updated \/ OUTPUT_SVG_LIGHT \notin files \/ OUTPUT_SVG_DARK \notin files
       THEN /\ cacheFile' = hist'
            /\ files' = files \cup {OUTPUT_SVG_LIGHT, OUTPUT_SVG_DARK,
                                    OUTPUT_SVG_FALLBACK}
            /\ saved' = TRUE
       ELSE UNCHANGED <<cacheFile, files, saved>>
    /\ pc' = "returned"
    /\ UNCHANGED <<head, tip, cdate, current_ref, commits, done, updated, idx,
                   failed, startHead, loaded, again, nCheckouts, nMeasured,
                   restored, numVars>>

(***************************************************************************)
(* Between runs: somebody commits, switches the checkout or deletes the    *)
(* generated charts.                                                       *)
(***************************************************************************)
Between == pc \in {"idle", "returned", "raised"}

\* the process has exited: nothing of the last run is left but the files
Exited ==
    /\ pc' = "idle"
    /\ current_ref' = "main"
    /\ commits' = << >>
    /\ hist' = << >>
    /\ done' = {}
    /\ updated' = FALSE
    /\ idx' = 1
    /\ failed' = FALSE
    /\ startHead' = head'
    /\ loaded' = cacheFile'
    /\ again' = FALSE
    /\ nCheckouts' = 0
    /\ nMeasured' = 0
    /\ restored' = FALSE
    /\ saved' = FALSE

NewCommit ==
    /\ Between
    /\ head.kind = "branch"
    /\ tip < MaxCommits
    /\ tip' = tip + 1
    /\ \E d \in Dates : cdate' = [cdate EXCEPT ![tip + 1] = d]
    /\ UNCHANGED <<head, cacheFile, files, numVars>>
    /\ Exited

UserCheckout ==
    /\ Between
    /\ \E h \in {OnBranch} \cup {Detached(c) : c \in 1..tip} :
          /\ h # head
          /\ head' = h
    /\ UNCHANGED <<tip, cdate, cacheFile, files, numVars>>
    /\ Exited

RemoveSvg ==
    /\ Between
    /\ files # {}
    /\ files' = {}
    /\ UNCHANGED <<head, tip, cdate, cacheFile, numVars>>
    /\ Exited

Next ==
    \/ Start
    \/ Skip
    \/ Measure
    \/ CheckoutFails
    \/ ClocFails
    \/ Restore
    \/ Persist
    \/ NewCommit
    \/ UserCheckout
    \/ RemoveSvg

Spec == Init /\ [][Next]_vars

(***************************************************************************)
(* The pure helpers, applied to arguments drawn from bounded sets.  The    *)
(* working tree and the cache stay as they are.                            *)
(***************************************************************************)
Quiet ==
    /\ tip = 1
    /\ cdate = [k \in 1..MaxCommits |-> 1]
    /\ head = OnBranch
    /\ cacheFile = << >>
    /\ files = {}
    /\ InitRun

NumArgs == {m * Pow10(e) + d : m \in 0..MaxMant, e \in 0..MaxExp, d \in -1..1}

\* ---- nice_round on two arguments a <= b
InitPair ==
    /\ Quiet
    /\ a \in (-MaxN)..MaxN
    /\ b \in a..MaxN
    /\ out = NoOut

NiceRoundPair ==
    /\ out.fn = "none"
    /\ out' = [fn |-> "pair", val |-> nice_round(a), aux |-> nice_round(b)]
    /\ UNCHANGED <<envVars, runVars, logVars, a, b>>

SpecPair == InitPair /\ [][NiceRoundPair]_vars

\* ---- nice_round, the y axis and format_number on one argument a
InitNum ==
    /\ Quiet
    /\ a \in NumArgs
    /\ b = 0
    /\ out = NoOut

NiceRound ==
    /\ out.fn = "none"
    /\ out' = [fn |-> "nice_round", val |-> nice_round(a), aux |-> 0]
    /\ UNCHANGED <<envVars, runVars, logVars, a, b>>

\* generate_svg lines 119-129 for points whose largest loc is a
Axis ==
    /\ out.fn = "none"
    /\ out' = [fn |-> "ymax", val |-> AxisYmax(MaxVal(a)), aux |-> MaxVal(a)]
    /\ UNCHANGED <<envVars, runVars, logVars, a, b>>

Format ==
    /\ out.fn = "none"
    /\ out' = [fn |-> "format_number", val |-> format_number(a), aux |-> 0]
    /\ UNCHANGED <<envVars, runVars, logVars, a, b>>

NextNum ==
    \/ NiceRound
    \/ Axis
    \/ Format

SpecNum == InitNum /\ [][NextNum]_vars

\* ---- the date labels of generate_svg for a points
InitLabels ==
    /\ Quiet
    /\ a \in 1..MaxPoints
    /\ b = 0
    /\ out = NoOut

DrawLabels ==
    /\ out.fn = "none"
    /\ out' = [fn |-> "labels", val |-> LabelIndices(a), aux |-> 0]
    /\ UNCHANGED <<envVars, runVars, logVars, a, b>>

SpecLabels == InitLabels /\ [][DrawLabels]_vars

(***************************************************************************)
(* Properties of main()                                                    *)
(***************************************************************************)
Ended == pc \in {"returned", "raised"}

\* the entries this run appended to hist
Measured == {hist[k] : k \in (Len(hist) - nMeasured + 1)..Len(hist)}

\* C1: when main() returns or raises, the working tree is checked out to
\* what it was checked out to when the run started.
C1_RefRestored == Ended => head = startHead

\* C2: whenever main() has written the cache file, the restoring checkout
\* ran before the write and the working tree was back on the starting ref
\* when the file was written.
C2_SavedAfterRestore == (pc = "returned" /\ saved) => (restored /\ head = startHead)

\* C3 as claimed: after a run in which a measurement failed, the cache file
\* holds the entries measured in that run before the failure.
C3_PartialProgressPersisted ==
    (pc = "raised" /\ nMeasured >= 1) => Measured \subseteq Range(cacheFile)

\* C3 as amended: a run in which a measurement failed restores the ref and
\* raises; it never reaches the sort and save, so the cache file keeps the
\* content it had when the run started and the entries measured before the
\* failure are not in it.
C3_FailureLeavesCacheStale ==
    (failed /\ restored) =>
        /\ pc \notin {"persist", "returned"}
        /\ ~saved
        /\ cacheFile = loaded
        /\ Measured \cap Range(cacheFile) = {}

C3_Witness == pc = "raised" /\ nMeasured >= 1 /\ Len(loaded) = 1 /\ head = startHead

\* C4: a run started right after a run that returned leaves the cache file
\* as it found it (same entries, same order, no sha twice) and checks out no
\* commit for measurement.
C4_SecondRunIdempotent ==
    (pc = "returned" /\ again) =>
        /\ cacheFile = loaded
        /\ NoDup(cacheFile)
        /\ nCheckouts = 0
        /\ nMeasured = 0

C4_Witness ==
    /\ pc = "returned"
    /\ again
    /\ Len(cacheFile) = MaxCommits
    /\ \E k \in 1..(Len(cacheFile) - 1) : cacheFile[k].sha > cacheFile[k + 1].sha

\* C5: in every step no sha is in two entries of the cache file or of hist,
\* every entry of the cache file stays in it unchanged, and a save adds
\* exactly the entries measured in the run, one per uncached commit.
C5_UniqueAppendOnly ==
    [][ /\ NoDup(cacheFile')
        /\ NoDup(hist')
        /\ Range(cacheFile) \subseteq Range(cacheFile')
        /\ (pc = "persist" /\ saved') =>
              /\ Range(cacheFile') = Range(loaded) \cup Measured
              /\ Len(cacheFile') = Len(loaded) + nMeasured
              /\ Shas(cacheFile') = Shas(loaded) \cup {c.sha : c \in Range(commits)}
      ]_vars

C5_Witness ==
    /\ pc = "returned"
    /\ saved
    /\ nMeasured >= 2
    /\ Len(loaded) = 1
    /\ 0 \in Shas(cacheFile)

(***************************************************************************)
(* Properties of the pure helpers                                          *)
(***************************************************************************)
\* C6 as claimed: for all integers a <= b, zero and negatives included,
\* nice_round(a) <= nice_round(b).
C6_Monotonic == out.fn = "pair" => out.val <= out.aux

\* C6 as amended: for integers a <= b, nice_round(a) <= nice_round(b)
\* exactly when not (a <= 0 and 1 <= b <= 5); so nice_round is monotonic
\* over the positive integers and constant over the non-positive ones.
C6_MonotonicOnPositives ==
    out.fn = "pair" => ((out.val <= out.aux) <=> ~(a <= 0 /\ b \in 1..5))

C6_Witness == out.fn = "pair" /\ a = 11 /\ b = 101 /\ out.val = 20 /\ out.aux = 200

NiceNumbers == {s * Pow10(k) : s \in {1, 2, 3, 5, 10}, k \in 0..(MaxExp + 3)}

\* C7: nice_round(n) >= n for n >= 0, the result is in {1,2,3,5,10} x 10^k
\* and is the smallest such number >= n when n > 0; it is 10 for n <= 0.
C7_NiceRoundCeiling ==
    out.fn = "nice_round" =>
        /\ a <= 0 => out.val = 10
        /\ a >= 0 => (out.val >= a /\ out.val \in NiceNumbers)
        /\ a > 0 => \A m \in NiceNumbers : m >= a => out.val <= m

C7_Witness == out.fn = "nice_round" /\ a = 11 /\ out.val = 20

SuffixRule(n, unit, suffix, s) ==
    IF n % unit = 0
    THEN s = ToString(n \div unit) \o suffix
    ELSE \E t \in {n \div (unit \div 10), n \div (unit \div 10) + 1} :
            /\ s = ToString(t \div 10) \o "." \o ToString(t % 10) \o suffix
            /\ 2 * t * (unit \div 10) - 2 * n <= unit \div 10
            /\ 2 * n - 2 * t * (unit \div 10) <= unit \div 10

\* C9: format_number prints n < 1000 as it is, 1000 <= n < 1000000 as
\* n/1000 with "k" and n >= 1000000 as n/1000000 with "M", without a decimal
\* when divisible and with exactly one decimal otherwise.
C9_FormatNumber ==
    (out.fn = "format_number" /\ a >= 0) =>
        /\ a < 1000 => out.val = ToString(a)
        /\ (1000 <= a /\ a < 1000000) => SuffixRule(a, 1000, "k", out.val)
        /\ a >= 1000000 => SuffixRule(a, 1000000, "M", out.val)
        /\ a = 0 => out.val = "0"
        /\ a = 999 => out.val = "999"
        /\ a = 1000 => out.val = "1k"
        /\ a = 1500 => out.val = "1.5k"
        /\ a = 1001 => out.val = "1.0k"
        /\ a = 1000000 => out.val = "1M"

C9_Witness == out.fn = "format_number" /\ a = 1200001 /\ out.val = "1.2M"

\* what C10 says of the labelled indices beside their number
LabelRule ==
    /\ a <= 10 => out.val = 0..(a - 1)
    /\ a > 10 => \A i \in 0..(a - 1) : i \in out.val <=> i % LabelStep(a) = 0

=============================================================================
